---- MODULE Spec2Model ----
(***************************************************************************)
(* Model of js/modules/sphere-graph.js: the rotating sphere of service     *)
(* nodes, its per-frame repaint (updateNodePositions) and its lifecycle    *)
(* (initSphereGraph / stopSphereGraph) on top of the host's                *)
(* requestAnimationFrame / cancelAnimationFrame.                           *)
(*                                                                         *)
(* Numbers.  The code computes in IEEE doubles; the model computes in      *)
(* fixed point on integers: angles and sines in units of 1/TRIG, lengths   *)
(* in units of 1/LEN of an SVG unit.  Timestamps are whole milliseconds.   *)
(* Every formula of the code is kept, operation by operation.              *)
(***************************************************************************)
EXTENDS Integers, Sequences, FiniteSets, TLC

----------------------------------------------------------------------------
(* Bounds of the model *)

\* frame timestamps handed out by the host: 0, TimeStep, ..., MaxTick * TimeStep
MaxTick == 3
\* requestAnimationFrame hands out the ids 1 .. MaxFrameId
MaxFrameId == 4
\* longest list handed to the depth sort in KernelSpec
MaxLen == 4
\* KernelSpec adds 0 .. MaxK periods to a timestamp
MaxK == 2
\* KernelSpec cuts the period into MaxPhase steps
MaxPhase == 12
\* KernelSpec cuts the depth of the sphere into MaxZSteps steps
MaxZSteps == 8
\* KernelSpec runs the node distribution for 1 .. MaxNodes nodes
MaxNodes == 9
\* KernelSpec breaks one of the first MaxBroken edges
MaxBroken == 2
\* the detail panel: at most this many show and hide calls
MaxPanelCalls == 3
\* the resize handler: at most this many resize events
MaxResizes == 3
\* the contact form: names of at most MaxNameLen characters, e-mail addresses
\* of at most MaxEmailLen, at most MaxSubmits submits
MaxNameLen == 3
MaxEmailLen == 5
MaxSubmits == 2
\* the notifications: at most MaxNotifications of them, and at most MaxClicks
\* clicks on their close buttons
MaxNotifications == 1
MaxClicks == 2
\* the logo: at most this many clicks and key presses
MaxEvents == 40

----------------------------------------------------------------------------
(* Fixed point *)

\* unit of angles (radians), of sines and of scale factors
TRIG == 10 ^ 4
\* unit of lengths (SVG units)
LEN == 10 ^ 2
\* spacing of the timestamps of the model, in milliseconds
TimeStep == 10000

\* a / b rounded to the nearest integer (b > 0), halves upwards
RoundDiv(a, b) == (2 * a + b) \div (2 * b)

\* Math.round of a value given in units of 1/unit: floor(v + 0.5)
MathRound(v, unit) == (2 * v + unit) \div (2 * unit)

\* largest s with s * s <= n
RECURSIVE SqrtSearch(_, _, _)
SqrtSearch(n, lo, hi) ==
  IF lo >= hi THEN lo
  ELSE LET mid == (lo + hi + 1) \div 2
       IN  IF mid * mid <= n THEN SqrtSearch(n, mid, hi) ELSE SqrtSearch(n, lo, mid - 1)

\* Math.PI
PI == 31416

\* Taylor polynomial of the sine at x in [0, PI/2], x2 = x^2, in Horner form:
\* x (1 - x^2/6 (1 - x^2/20 (1 - x^2/42 (1 - x^2/72))))
SinSeries(x, x2) ==
  RoundDiv(x * (TRIG - RoundDiv(x2 * (TRIG - RoundDiv(x2 * (TRIG - RoundDiv(x2 *
    (TRIG - RoundDiv(x2, 72)), 42 * TRIG)), 20 * TRIG)), 6 * TRIG)), TRIG)

\* Math.sin
Sin(a) ==
  LET r == a % (2 * PI)                       \* in [0, 2 PI)
      h == IF r > PI THEN r - PI ELSE r       \* in [0, PI], sin(r) = -sin(r - PI)
      x == IF 2 * h > PI THEN PI - h ELSE h   \* in [0, PI/2]
  IN  (IF r > PI THEN -1 ELSE 1) * SinSeries(x, RoundDiv(x * x, TRIG))

\* Math.cos
Cos(a) == Sin(a + PI \div 2)

\* Math.asin on [-1, 1]: the angle of [-PI/2, PI/2] whose sine is y
RECURSIVE AsinSearch(_, _, _)
AsinSearch(y, lo, hi) ==
  IF lo >= hi THEN lo
  ELSE LET mid == (lo + hi) \div 2
       IN  IF Sin(mid) < y THEN AsinSearch(y, mid + 1, hi) ELSE AsinSearch(y, lo, mid)

Asin(y) == IF y < 0 THEN -AsinSearch(-y, 0, PI \div 2) ELSE AsinSearch(y, 0, PI \div 2)

----------------------------------------------------------------------------
(* Configuration *)

SPHERE_RADIUS == 220
\* the camera on the surface of the sphere
CameraOnSphere == SPHERE_RADIUS
CAMERA_DISTANCE == 600
CENTER_X == 350
CENTER_Y == 350
ANIMATION_PERIOD == 30000
NUM_NODES == 7

\* (1 + Math.sqrt(5)) / 2
GOLDEN_RATIO == (TRIG + SqrtSearch(5 * TRIG * TRIG, 0, 3 * TRIG)) \div 2

\* the loop of module initialization numbering the nodes from 1
FibonacciNodeOneBased(i) ==
  LET y     == TRIG - RoundDiv(2 * (2 * i + 1) * TRIG, 2 * NUM_NODES)
      theta == RoundDiv(2 * PI * i * (TRIG \div 10), GOLDEN_RATIO \div 10)
      phi   == Asin(y)
  IN  [theta |-> theta, phi |-> phi, r |-> SPHERE_RADIUS, index |-> i + 1]

\* the height measured from the pole: y = 1 - (2 * i) / n
NodeHeightFromPole(i, n) == TRIG - RoundDiv(2 * i * TRIG, n)

\* y of the loop body for node i of n: 1 - (2 * (i + 0.5)) / n
NodeHeight(i, n) == TRIG - RoundDiv(2 * (2 * i + 1) * TRIG, 2 * n)

\* the loop body for node i of n: what it pushes
SphereNode(i, n) ==
  LET y     == NodeHeight(i, n)
      theta == RoundDiv(2 * PI * i * (TRIG \div 10), GOLDEN_RATIO \div 10)
      phi   == Asin(y)
  IN  [theta |-> theta, phi |-> phi, r |-> SPHERE_RADIUS, index |-> i]

\* the loop of module initialization: node i (0-based) of the Fibonacci spiral
FibonacciNode(i) == SphereNode(i, NUM_NODES)

\* SPHERE_NODES as the module leaves it after its initialization loop
InitialSphereNodes == [k \in 1..NUM_NODES |-> FibonacciNode(k - 1)]

\* RELATIONSHIP_EDGES with a last entry [6, 7]: node 7 does not exist
EdgesNamingNoNode ==
  << <<0, 4>>, <<1, 3>>, <<1, 2>>, <<2, 4>>, <<3, 4>>, <<5, 0>>, <<6, 5>>, <<6, 7>> >>

\* RELATIONSHIP_EDGES as written in the module
InitialRelationshipEdges ==
  << <<0, 4>>, <<1, 3>>, <<1, 2>>, <<2, 4>>, <<3, 4>>, <<5, 0>>, <<6, 5>>, <<6, 2>> >>

----------------------------------------------------------------------------
(* 3D math *)

sphericalToCartesian(theta, phi, r) ==
  [x |-> RoundDiv(RoundDiv(r * LEN * Cos(phi), TRIG) * Sin(theta), TRIG),
   y |-> RoundDiv(r * LEN * Sin(phi), TRIG),
   z |-> RoundDiv(RoundDiv(r * LEN * Cos(phi), TRIG) * Cos(theta), TRIG)]

\* the rotation whose tilt uses the depth of the point as it was before the spin
rotatePointUnspunDepth(point, spinAngle, tiltAngle) ==
  LET cosY == Cos(spinAngle)
      sinY == Sin(spinAngle)
      x1   == RoundDiv(point.x * cosY + point.z * sinY, TRIG)
      cosX == Cos(tiltAngle)
      sinX == Sin(tiltAngle)
      y2   == RoundDiv(point.y * cosX - point.z * sinX, TRIG)
      z2   == RoundDiv(point.y * sinX + point.z * cosX, TRIG)
  IN  [x |-> x1, y |-> y2, z |-> z2]

rotatePoint(point, spinAngle, tiltAngle) ==
  LET cosY == Cos(spinAngle)
      sinY == Sin(spinAngle)
      x1   == RoundDiv(point.x * cosY + point.z * sinY, TRIG)
      z1   == RoundDiv(-point.x * sinY + point.z * cosY, TRIG)
      cosX == Cos(tiltAngle)
      sinX == Sin(tiltAngle)
      y2   == RoundDiv(point.y * cosX - z1 * sinX, TRIG)
      z2   == RoundDiv(point.y * sinX + z1 * cosX, TRIG)
  IN  [x |-> x1, y |-> y2, z |-> z2]

\* the projection without the flip of the y axis
projectYNotFlipped(point) ==
  LET depth   == CAMERA_DISTANCE * LEN + point.z
      scale   == RoundDiv(CAMERA_DISTANCE * LEN * TRIG, depth)
      screenX == CENTER_X * LEN + RoundDiv(point.x * scale, TRIG)
      screenY == CENTER_Y * LEN + RoundDiv(point.y * scale, TRIG)
  IN  [screenX |-> MathRound(screenX, LEN),
       screenY |-> MathRound(screenY, LEN),
       scale   |-> scale,
       z       |-> point.z]

\* the projection with the depth measured the other way: CAMERA_DISTANCE - z
projectDepthSignSlip(point) ==
  LET depth   == CAMERA_DISTANCE * LEN - point.z
      scale   == RoundDiv(CAMERA_DISTANCE * LEN * TRIG, depth)
      screenX == CENTER_X * LEN + RoundDiv(point.x * scale, TRIG)
      screenY == CENTER_Y * LEN - RoundDiv(point.y * scale, TRIG)
  IN  [screenX |-> MathRound(screenX, LEN),
       screenY |-> MathRound(screenY, LEN),
       scale   |-> scale,
       z       |-> point.z]

projectPerspective(point) ==
  LET depth   == CAMERA_DISTANCE * LEN + point.z
      scale   == RoundDiv(CAMERA_DISTANCE * LEN * TRIG, depth)
      screenX == CENTER_X * LEN + RoundDiv(point.x * scale, TRIG)
      screenY == CENTER_Y * LEN - RoundDiv(point.y * scale, TRIG)
  IN  [screenX |-> MathRound(screenX, LEN),
       screenY |-> MathRound(screenY, LEN),
       scale   |-> scale,
       z       |-> point.z]

----------------------------------------------------------------------------
(* The page and the host *)

\* null / undefined, and "no element"
NULL == 0

\* the only graph container of a page; initSphereGraph is handed it, or null
CONTAINER == 1

\* The .services__graph container of a page, as the module queries it:
\*   svg: it holds a .service-graph element; nodes: how many
\*   .service-graph__node--category elements (1 .. nodes, element k showing
\*   service k - 1); labels: how many category labels; group: the
\*   .service-graph__nodes group exists (and then holds the node elements);
\*   edges: the .service-graph__edges group exists; lines: its line elements.
Layout(svg, nodes, labels, group, edges, lines) ==
  [svg |-> svg, nodes |-> nodes, labels |-> labels, group |-> group, edges |-> edges, lines |-> lines]

Layouts ==
  { Layout(TRUE, NUM_NODES, NUM_NODES, TRUE, TRUE, 8),   \* the page as designed
    Layout(FALSE, 0, 0, FALSE, FALSE, 0),                \* no .service-graph element
    Layout(TRUE, 0, 0, TRUE, TRUE, 8),                   \* no category node elements
    Layout(TRUE, NUM_NODES, NUM_NODES, FALSE, FALSE, 0), \* no nodes group, no edges group
    Layout(TRUE, 5, 4, TRUE, TRUE, 6),                   \* fewer elements than nodes and edges
    Layout(TRUE, NUM_NODES, NUM_NODES, TRUE, TRUE, 9) }  \* one line more than edges

TimeStamps == { k * TimeStep : k \in 0..MaxTick }

VARIABLES
  SPHERE_NODES,            \* the module's node array
  RELATIONSHIP_EDGES,      \* the module's edge array
  animationFrameId,        \* module state
  nodeElements,
  labelElements,
  relationshipEdges,
  nodesGroup,
  relationshipEdgesGroup,
  page,                    \* the layout of the document
  dom,                     \* the mutable part of the document
  pendingFrames,           \* host: ids of the scheduled frame callbacks
  nextFrameId,             \* host: the id the next requestAnimationFrame returns
  now,                     \* host: the timestamp of the latest frame
  projectedNodes,          \* the latest frame's local projectedNodes, after its sort
  lastCall,                \* the latest call: what, with which input, whether it threw
  running,                 \* a start has scheduled the loop and no stop came since
  sortIO,                  \* depth-sort kernel: input and output list
  tickIO,                  \* clock kernel: input and outputs
  projIO,                  \* projection kernel: two points of equal (x, y), their projections
  nodesIO,                 \* distribution kernel: n, and the heights and nodes for n
  edgesIO,                 \* edge kernel: which entry of the edge list names no node
  rotIO,                   \* rotation kernel: a point, two angles, the rotated point
  timers,                  \* host: the pending setTimeout callbacks, in creation order
  nextTimerId,             \* host: the id the next setTimeout returns
  detailPanel,             \* main.js: the detail panel's style and content
  panelCalls,              \* the show and hide calls made so far, the latest last
  innerWidth,              \* host: window.innerWidth
  containers,              \* the page's markup: is there a .services__graph, a .services__grid
  hiddenClasses,           \* which of the two containers carries its --hidden class
  resizeTimeout,           \* main.js: the id of the latest debounce timer
  resizeLog,               \* the width at initialization, the resizes made, the latest handleResize
  notifications,           \* the toast notifications created so far, in creation order
  pendingPaints,           \* host: the notifications whose requestAnimationFrame callback is pending
  form,                    \* the contact form's field values
  submitLog,               \* the submits made, and what the latest one read and found
  currentIndex,            \* logo module: the index of the distribution shown
  logo,                    \* the #animatedLogo element: is there one, its listeners, its curves
  logoLog                  \* the events the logo got, how many of them activations

vars == << SPHERE_NODES, RELATIONSHIP_EDGES, animationFrameId, nodeElements, labelElements,
           relationshipEdges, nodesGroup, relationshipEdgesGroup, page, dom, pendingFrames,
           nextFrameId, now, projectedNodes, lastCall, running, sortIO, tickIO,
           projIO, nodesIO, edgesIO, rotIO, timers, nextTimerId, detailPanel, panelCalls,
           innerWidth, containers, hiddenClasses, resizeTimeout, resizeLog,
           notifications, pendingPaints, form, submitLog, currentIndex, logo, logoLog >>

moduleState == << animationFrameId, nodeElements, labelElements, relationshipEdges,
                  nodesGroup, relationshipEdgesGroup >>

\* an element the module never wrote to
UNSET == [written |-> FALSE]

\* the .service-graph__node--center element: a child of the nodes group that is
\* no category node
CENTER_NODE == NUM_NODES + 1

\* the document as the page's markup gives it
InitialDom(layout) ==
  [nodeOrder |-> (IF layout.group THEN << CENTER_NODE >> ELSE << >>)
                   \o [k \in 1..layout.nodes |-> k],  \* document order of the node elements
   nodeAttr  |-> [k \in 1..layout.nodes |-> UNSET],
   labelAttr |-> [k \in 1..layout.labels |-> UNSET],
   lineAttr  |-> [k \in 1..layout.lines |-> UNSET]]

\* array[i] of JavaScript (0-based), undefined when i is out of range
At(array, i) == IF i + 1 \in DOMAIN array THEN array[i + 1] ELSE NULL

\* a kernel of KernelSpec that was handed no input
Idle == [applied |-> FALSE, idle |-> TRUE]

NoCall == [op |-> "none", container |-> NULL, raised |-> FALSE]

----------------------------------------------------------------------------
(* Animation *)

\* Number.prototype.toFixed(digits) of v / unit, as a count of 10^-digits
ToFixed(v, unit, digits) == RoundDiv(v * (IF digits = 2 THEN 100 ELSE 1000), unit)

\* the clock without the modulo: t grows with the timestamp
ClockWithoutModulo(timestamp) ==
  LET t == (timestamp * TRIG) \div ANIMATION_PERIOD
  IN  [t         |-> t,
       spinAngle |-> RoundDiv(t * 2 * PI, TRIG),
       tiltAngle |-> RoundDiv(Sin(RoundDiv(t * PI, TRIG)) * PI, TRIG)]

\* t, spinAngle and tiltAngle of a frame
AnimationClock(timestamp) ==
  LET t == ((timestamp % ANIMATION_PERIOD) * TRIG) \div ANIMATION_PERIOD
  IN  [t         |-> t,
       spinAngle |-> RoundDiv(t * 2 * PI, TRIG),
       tiltAngle |-> RoundDiv(Sin(RoundDiv(t * PI, TRIG)) * PI, TRIG)]

\* the callback of SPHERE_NODES.map: one node, projected at the frame's angles
ProjectNode(node, clock) ==
  LET cartesian == sphericalToCartesian(node.theta, node.phi, node.r)
      rotated   == rotatePoint(cartesian, clock.spinAngle, clock.tiltAngle)
      projected == projectPerspective(rotated)
  IN  [screenX |-> projected.screenX, screenY |-> projected.screenY,
       scale |-> projected.scale, z |-> projected.z, index |-> node.index]

ProjectNodes(nodes, timestamp) ==
  [k \in DOMAIN nodes |-> ProjectNode(nodes[k], AnimationClock(timestamp))]

\* SPHERE_NODES.map(...): a new array, one projected node per node, in node order
ProjectAll(nodes, timestamp) == ProjectNodes(nodes, timestamp)

\* the comparator the other way round: (a, b) => a.z - b.z
CompareAscending(a, b) == a.z - b.z

\* the comparator with a tie-break on the index, larger index first
CompareDepthThenLaterIndex(a, b) == IF b.z # a.z THEN b.z - a.z ELSE b.index - a.index

\* the comparator (a, b) => b.z - a.z
CompareDepth(a, b) == b.z - a.z

\* Array.prototype.sort is stable: e goes behind every element it does not precede
RECURSIVE InsertSorted(_, _)
InsertSorted(sorted, e) ==
  IF sorted = << >> THEN << e >>
  ELSE IF CompareDepth(e, sorted[Len(sorted)]) < 0
       THEN Append(InsertSorted(SubSeq(sorted, 1, Len(sorted) - 1), e), sorted[Len(sorted)])
       ELSE Append(sorted, e)

RECURSIVE SortFrom(_, _, _)
SortFrom(list, k, sorted) ==
  IF k > Len(list) THEN sorted ELSE SortFrom(list, k + 1, InsertSorted(sorted, list[k]))

\* projectedNodes.sort((a, b) => b.z - a.z)
SortByDepth(list) == SortFrom(list, 1, << >>)

\* an opacity that fades as the node comes nearer: 1 - scale * 0.6
NodeOpacityFading(scale) == TRIG - RoundDiv(scale * 6, 10)

\* opacity of a node element: 0.4 + scale * 0.6
NodeOpacity(scale) == (4 * TRIG) \div 10 + RoundDiv(scale * 6, 10)

\* opacity of a label element: 0.3 + scale * 0.7
LabelOpacity(scale) == (3 * TRIG) \div 10 + RoundDiv(scale * 7, 10)

\* the node element update that keeps what an earlier frame wrote
UpdateNodeOnce(d, proj, nodeElement, group) ==
  IF nodeElement = NULL THEN d
  ELSE IF d.nodeAttr[nodeElement].written THEN d
  ELSE
    LET opacity == NodeOpacity(proj.scale)
    IN  [d EXCEPT
          !.nodeAttr[nodeElement] =
             [written   |-> TRUE,
              transform |-> << proj.screenX, proj.screenY, ToFixed(proj.scale, TRIG, 3) >>,
              opacity   |-> ToFixed(opacity, TRIG, 2)],
          !.nodeOrder =
             IF group # NULL
             THEN Append(SelectSeq(d.nodeOrder, LAMBDA e : e # nodeElement), nodeElement)
             ELSE d.nodeOrder]

\* the node element update that moves the element in front of its siblings
UpdateNodePrepend(d, proj, nodeElement, group) ==
  IF nodeElement = NULL THEN d
  ELSE
    LET opacity == NodeOpacity(proj.scale)
    IN  [d EXCEPT
          !.nodeAttr[nodeElement] =
             [written   |-> TRUE,
              transform |-> << proj.screenX, proj.screenY, ToFixed(proj.scale, TRIG, 3) >>,
              opacity   |-> ToFixed(opacity, TRIG, 2)],
          !.nodeOrder =
             IF group # NULL
             THEN << nodeElement >> \o SelectSeq(d.nodeOrder, LAMBDA e : e # nodeElement)
             ELSE d.nodeOrder]

\* one node element of the forEach: transform, z-order (appendChild moves the
\* element behind its siblings), opacity
UpdateNode(d, proj, nodeElement, group) ==
  IF nodeElement = NULL THEN d
  ELSE
    LET opacity == NodeOpacity(proj.scale)
    IN  [d EXCEPT
          !.nodeAttr[nodeElement] =
             [written   |-> TRUE,
              transform |-> << proj.screenX, proj.screenY, ToFixed(proj.scale, TRIG, 3) >>,
              opacity   |-> ToFixed(opacity, TRIG, 2)],
          !.nodeOrder =
             IF group # NULL
             THEN Append(SelectSeq(d.nodeOrder, LAMBDA e : e # nodeElement), nodeElement)
             ELSE d.nodeOrder]

\* one label element of the forEach: position and opacity
UpdateLabel(d, proj, labelElement) ==
  IF labelElement = NULL THEN d
  ELSE
    LET labelY       == proj.screenY * TRIG + 48 * proj.scale
        labelOpacity == LabelOpacity(proj.scale)
    IN  [d EXCEPT
          !.labelAttr[labelElement] =
             [written |-> TRUE,
              x       |-> proj.screenX,
              y       |-> MathRound(labelY, TRIG),
              opacity |-> ToFixed(labelOpacity, TRIG, 2)]]

\* projectedNodes.forEach((proj, renderOrder) => ...), in sorted order
RECURSIVE UpdateNodes(_, _, _, _, _, _)
UpdateNodes(sorted, k, nodeEls, labelEls, group, d) ==
  IF k > Len(sorted) THEN d
  ELSE UpdateNodes(sorted, k + 1, nodeEls, labelEls, group,
         UpdateLabel(UpdateNode(d, sorted[k], At(nodeEls, sorted[k].index), group),
                     sorted[k], At(labelEls, sorted[k].index)))

\* projectedNodes[i]: the element at place i of the sorted list
FindByPosition(list, i, k) == i + 1

\* a lookup that falls back to the last element when no element has index i
FindOrLast(list, i, k) ==
  IF \E j \in DOMAIN list : list[j].index = i
  THEN CHOOSE j \in DOMAIN list : list[j].index = i
  ELSE Len(list)

\* projectedNodes.find(p => p.index === i): the position of the first such
\* element, 0 when find returns undefined
RECURSIVE FindByIndex(_, _, _)
FindByIndex(list, i, k) ==
  IF k > Len(list) THEN 0
  ELSE IF list[k].index = i THEN k ELSE FindByIndex(list, i, k + 1)

\* the forEach over the bound line elements; destructuring RELATIONSHIP_EDGES[idx]
\* throws a TypeError when idx is past the end of RELATIONSHIP_EDGES
RECURSIVE UpdateEdges(_, _, _, _, _)
UpdateEdges(lineEls, idx, edges, sorted, d) ==
  IF idx >= Len(lineEls) THEN [dom |-> d, raised |-> FALSE]
  ELSE IF idx >= Len(edges) THEN [dom |-> d, raised |-> TRUE]
  ELSE
    LET edge     == lineEls[idx + 1]
        fromProj == FindByIndex(sorted, edges[idx + 1][1], 1)
        toProj   == FindByIndex(sorted, edges[idx + 1][2], 1)
    IN  IF fromProj # 0 /\ toProj # 0
        THEN LET avgScale    == (sorted[fromProj].scale + sorted[toProj].scale) \div 2
                 edgeOpacity == (5 * TRIG) \div 100 + RoundDiv(avgScale * 15, 100)
             IN  UpdateEdges(lineEls, idx + 1, edges, sorted,
                   [d EXCEPT !.lineAttr[edge] =
                      [written |-> TRUE,
                       x1 |-> sorted[fromProj].screenX, y1 |-> sorted[fromProj].screenY,
                       x2 |-> sorted[toProj].screenX, y2 |-> sorted[toProj].screenY,
                       strokeOpacity |-> ToFixed(edgeOpacity, TRIG, 2)]])
        ELSE UpdateEdges(lineEls, idx + 1, edges, sorted, d)

\* The body of updateNodePositions up to, and without, its last statement: what
\* a frame at this timestamp makes of the document d, given the module's
\* arrays and caches.  raised: the body threw, so the last statement is not reached.
FrameBody(timestamp, nodes, edges, nodeEls, labelEls, lineEls, group, d) ==
  LET sorted == SortByDepth(ProjectAll(nodes, timestamp))
      d1     == UpdateNodes(sorted, 1, nodeEls, labelEls, group, d)
      r      == UpdateEdges(lineEls, 0, edges, sorted, d1)
  IN  [dom |-> r.dom, raised |-> r.raised, projectedNodes |-> sorted]

\* SPHERE_NODES after a frame that sorts SPHERE_NODES itself by the projected depth
NodesSortedInPlace(nodes, timestamp) ==
  LET sorted == SortByDepth(ProjectNodes(nodes, timestamp))
  IN  [k \in DOMAIN nodes |->
        nodes[CHOOSE j \in DOMAIN nodes : nodes[j].index = sorted[k].index]]

\* SPHERE_NODES after a frame: map() builds a new array, the sort is on that one
NodesAfterFrame(nodes, timestamp) == nodes

\* RELATIONSHIP_EDGES after a frame: only read
EdgesAfterFrame(edges) == edges

\* nodeElements after a frame that looks the node elements up again in the document
NodeElementsRequeried(nodeEls, d) == SelectSeq(d.nodeOrder, LAMBDA e : e # CENTER_NODE)

\* nodeElements after a frame: only read (nodeElements[proj.index])
NodeElementsAfterFrame(nodeEls, d) == nodeEls

----------------------------------------------------------------------------
(* Host: requestAnimationFrame and cancelAnimationFrame *)

\* requestAnimationFrame(callback): the callback joins the list, its id is returned
RequestFrame(pending, id) == pending \cup {id}

\* cancelAnimationFrame(id): the callback of that id, if still listed, is dropped
CancelFrame(pending, id) == pending \ {id}

----------------------------------------------------------------------------
(* Public API and the frame callback *)

\* stopSphereGraph as a stop that also clears the callback list when it holds no id
stopClearsAll(frameId, pending) ==
  IF frameId # NULL
  THEN [animationFrameId |-> NULL, pendingFrames |-> CancelFrame(pending, frameId)]
  ELSE [animationFrameId |-> NULL, pendingFrames |-> {}]

\* what stopSphereGraph makes of animationFrameId and of the host's callback list
stopSphereGraph(frameId, pending) ==
  IF frameId # NULL
  THEN [animationFrameId |-> NULL, pendingFrames |-> CancelFrame(pending, frameId)]
  ELSE [animationFrameId |-> frameId, pendingFrames |-> pending]

\* initSphereGraph without its second early return
InitAbortsOnlyWithoutContainer(container, layout) == container = NULL

\* initSphereGraph returns early: no container, or no .service-graph in it
InitAborts(container, layout) == container = NULL \/ ~layout.svg

\* svg.querySelectorAll('.service-graph__node--category'), in document order
QueryNodeElements(d) == SelectSeq(d.nodeOrder, LAMBDA e : e # CENTER_NODE)

\* svg.querySelector('.service-graph__label--category:nth-of-type(index + 1)') per node
QueryLabelElements(nodes, layout) ==
  [k \in DOMAIN nodes |-> IF nodes[k].index + 1 <= layout.labels THEN nodes[k].index + 1 ELSE NULL]

\* the elements of a group that exists, NULL for one that does not
GROUP == 1

(* The host's timers, shared by the modules of the page *)

\* setTimeout(callback, delay): the callback is named by op and arg
SetTimeout(queue, id, op, arg, delay) ==
  Append(queue, [id |-> id, remaining |-> delay, op |-> op, arg |-> arg])

\* clearTimeout(id): no effect when no pending timer has this id
ClearTimeout(queue, id) == SelectSeq(queue, LAMBDA t : t.id # id)

\* the time until the earliest pending timer is due
RECURSIVE MinRemaining(_)
MinRemaining(queue) ==
  IF Len(queue) = 1 THEN queue[1].remaining
  ELSE LET rest == MinRemaining(Tail(queue))
       IN  IF queue[1].remaining <= rest THEN queue[1].remaining ELSE rest

\* the place in the queue of the timer the host runs next: the first created
\* among those that are due; 0 when none is due
DueTimer(queue) ==
  LET due == { k \in DOMAIN queue : queue[k].remaining = 0 }
  IN  IF due = {} THEN 0 ELSE CHOOSE k \in due : \A j \in due : k <= j

\* the queue without the timer at place k
WithoutTimer(queue, k) == SubSeq(queue, 1, k - 1) \o SubSeq(queue, k + 1, Len(queue))

\* the queue after d milliseconds
Elapse(queue, d) == [k \in DOMAIN queue |-> [queue[k] EXCEPT !.remaining = @ - d]]

(* main.js: the detail panel *)

\* createDetailPanel: hidden and transparent, no content
CreatedPanel == [display |-> "none", opacity |-> 0, service |-> NULL]

\* the delays of the show and hide timers
PANEL_SHOW_DELAY == 10

PANEL_HIDE_DELAY == 300

(* main.js: the services section and the resize handler *)

\* the width above which the graph is shown instead of the card grid
DESKTOP_BREAKPOINT == 1024

\* the delay of the resize handler's debounce timer
RESIZE_DEBOUNCE == 250

\* the page as designed: both containers
BothContainers == [graph |-> TRUE, grid |-> TRUE]

\* initServices(): which containers carry their --hidden class afterwards
initServices(width, present) ==
  IF width > DESKTOP_BREAKPOINT /\ present.graph
  THEN [graph |-> FALSE, grid |-> present.grid]
  ELSE IF present.grid
       THEN [graph |-> present.graph, grid |-> FALSE]
       ELSE [graph |-> FALSE, grid |-> FALSE]

\* the record of a page just initialized at this width
LoadedAt(width, resizes) ==
  [widthAtInit |-> width, before |-> width, resizes |-> resizes, handled |-> FALSE,
   reloaded |-> FALSE, width |-> width]

(* The toast notifications *)

\* how long a notification stays, in milliseconds
DURATION == 4000

\* how long the hide animation takes before the element is removed
ANIMATION_DELAY == 300

\* createNotificationElement and document.body.appendChild
NewNotification(message, type) ==
  [type |-> type, message |-> message, inDocument |-> TRUE, visible |-> FALSE,
   clicks |-> 0]

\* showNotification(message, type): the document, the timers and the frame
\* requests afterwards
showNotification(notes, queue, id, paints, message, type) ==
  [notifications |-> Append(notes, NewNotification(message, type)),
   pendingPaints |-> paints \cup { Len(notes) + 1 },
   timers        |-> SetTimeout(queue, id, "hideNotification", Len(notes) + 1, DURATION),
   nextTimerId   |-> id + 1]

\* a hideNotification that takes the visible class away and leaves the element
\* in the document
hideNotificationKeepsElement(notes, queue, id, n) ==
  [notifications |-> [notes EXCEPT ![n].visible = FALSE],
   timers        |-> queue,
   nextTimerId   |-> id]

\* hideNotification(notification)
hideNotification(notes, queue, id, n) ==
  [notifications |-> [notes EXCEPT ![n].visible = FALSE],
   timers        |-> SetTimeout(queue, id, "remove", n, ANIMATION_DELAY),
   nextTimerId   |-> id + 1]

\* notification.remove(): no effect on an element that is not in the document
RemoveElement(notes, n) ==
  [notes EXCEPT ![n].inDocument = FALSE]

(* The contact form *)

MIN_NAME_LENGTH == 2

MIN_MESSAGE_LENGTH == 10

\* form.reset(): the fields' default values
EmptyForm == [name |-> << >>, email |-> << >>, message |-> << >>]

(* The animated logo *)

\* Object.keys(distributionConfigs).length
DISTRIBUTION_COUNT == 38

\* the curves of a distribution
TOTAL_CURVES == 15

\* the element as the page's markup gives it: no curve, no listener
LogoMarkup(present) == [present |-> present, listening |-> FALSE, curves |-> << >>]

hostVars == << timers, nextTimerId >>

logoVars == << currentIndex, logo, logoLog >>

\* the page as designed, before initLogo: no click or key press yet
LogoUntouched ==
  /\ currentIndex = 0
  /\ logo = LogoMarkup(TRUE)
  /\ logoLog = [events |-> 0, activations |-> 0, last |-> "none"]

notifyVars == << notifications, pendingPaints >>

contactVars == << form, submitLog >>

NotifyUntouched == notifications = << >> /\ pendingPaints = {}

\* the form as the page's markup gives it, not yet submitted
ContactUntouched ==
  /\ form = EmptyForm
  /\ submitLog = [submits |-> 0, data |-> EmptyForm, before |-> EmptyForm, shown |-> 0]

panelVars == << detailPanel, panelCalls >>

resizeVars == << innerWidth, containers, hiddenClasses, resizeTimeout, resizeLog >>

HostUntouched == timers = << >> /\ nextTimerId = 1

PanelUntouched == detailPanel = CreatedPanel /\ panelCalls = << >>

\* the page as designed, loaded on a desktop
ResizeUntouched ==
  /\ innerWidth = DESKTOP_BREAKPOINT + 1
  /\ containers = BothContainers
  /\ hiddenClasses = initServices(innerWidth, containers)
  /\ resizeTimeout = NULL
  /\ resizeLog = LoadedAt(innerWidth, 0)

\* the state of the other modules of the page before any of their calls
SiteUntouched ==
  /\ HostUntouched
  /\ PanelUntouched
  /\ ResizeUntouched
  /\ NotifyUntouched
  /\ ContactUntouched
  /\ LogoUntouched

siteVars == << hostVars, panelVars, resizeVars, notifyVars, contactVars, logoVars >>

Init ==
  /\ SiteUntouched
  /\ SPHERE_NODES = InitialSphereNodes
  /\ RELATIONSHIP_EDGES = InitialRelationshipEdges
  /\ animationFrameId = NULL
  /\ nodeElements = << >>
  /\ labelElements = << >>
  /\ relationshipEdges = << >>
  /\ nodesGroup = NULL
  /\ relationshipEdgesGroup = NULL
  /\ page \in Layouts
  /\ dom = InitialDom(page)
  /\ pendingFrames = {}
  /\ nextFrameId = 1
  /\ now = 0
  /\ projectedNodes = << >>
  /\ lastCall = NoCall
  /\ running = FALSE
  /\ sortIO = Idle
  /\ tickIO = Idle
  /\ projIO = Idle
  /\ nodesIO = Idle
  /\ edgesIO = Idle
  /\ rotIO = Idle

kernelVars == << sortIO, tickIO, projIO, nodesIO, edgesIO, rotIO >>
arrays == << SPHERE_NODES, RELATIONSHIP_EDGES >>

\* initSphereGraph(container)
InitSphereGraph(container) ==
  /\ lastCall' = [op |-> "init", container |-> container, raised |-> FALSE]
  /\ IF InitAborts(container, page)
     THEN UNCHANGED << moduleState, pendingFrames, nextFrameId, running >>
     ELSE /\ nextFrameId <= MaxFrameId
          /\ nodeElements' = QueryNodeElements(dom)
          /\ labelElements' = QueryLabelElements(SPHERE_NODES, page)
          /\ nodesGroup' = IF page.group THEN GROUP ELSE NULL
          /\ relationshipEdgesGroup' = IF page.edges THEN GROUP ELSE NULL
          /\ relationshipEdges' = IF page.edges THEN [k \in 1..page.lines |-> k]
                                                ELSE relationshipEdges
          /\ animationFrameId' = nextFrameId
          /\ pendingFrames' = RequestFrame(pendingFrames, nextFrameId)
          /\ nextFrameId' = nextFrameId + 1
          /\ running' = TRUE
  /\ UNCHANGED << arrays, page, dom, now, projectedNodes, kernelVars, siteVars >>

\* stopSphereGraph()
StopSphereGraph ==
  /\ lastCall' = [op |-> "stop", container |-> NULL, raised |-> FALSE]
  /\ LET r == stopSphereGraph(animationFrameId, pendingFrames)
     IN  /\ animationFrameId' = r.animationFrameId
         /\ pendingFrames' = r.pendingFrames
  /\ running' = FALSE
  /\ UNCHANGED << arrays, nodeElements, labelElements, relationshipEdges, nodesGroup,
                  relationshipEdgesGroup, page, dom, nextFrameId, now, projectedNodes,
                  kernelVars, siteVars >>

\* The host runs the scheduled callback id at the frame time timestamp:
\* updateNodePositions(timestamp), whose last statement schedules the next frame.
Frame(id, timestamp) ==
  /\ id \in pendingFrames
  /\ timestamp >= now
  /\ nextFrameId <= MaxFrameId
  /\ LET r == FrameBody(timestamp, SPHERE_NODES, RELATIONSHIP_EDGES, nodeElements,
                        labelElements, relationshipEdges, nodesGroup, dom)
     IN  /\ dom' = r.dom
         /\ nodeElements' = NodeElementsAfterFrame(nodeElements, r.dom)
         /\ projectedNodes' = r.projectedNodes
         /\ lastCall' = [op |-> "frame", container |-> NULL, raised |-> r.raised]
         /\ IF r.raised
            THEN /\ pendingFrames' = pendingFrames \ {id}
                 /\ UNCHANGED << animationFrameId, nextFrameId >>
            ELSE /\ animationFrameId' = nextFrameId
                 /\ pendingFrames' = RequestFrame(pendingFrames \ {id}, nextFrameId)
                 /\ nextFrameId' = nextFrameId + 1
  /\ SPHERE_NODES' = NodesAfterFrame(SPHERE_NODES, timestamp)
  /\ RELATIONSHIP_EDGES' = EdgesAfterFrame(RELATIONSHIP_EDGES)
  /\ now' = timestamp
  /\ UNCHANGED << labelElements, relationshipEdges, nodesGroup,
                  relationshipEdgesGroup, page, running, kernelVars, siteVars >>

Next ==
  \/ \E container \in {NULL, CONTAINER} : InitSphereGraph(container)
  \/ StopSphereGraph
  \/ \E id \in pendingFrames, timestamp \in TimeStamps : Frame(id, timestamp)

Spec == Init /\ [][Next]_vars

----------------------------------------------------------------------------
(* KernelSpec: the depth sort and the animation clock on inputs of their own *)

\* depths of the lists handed to the sort
DepthValues == {-5, 0, 5}

\* the lists of at most n projected nodes with these depths, node k - 1 at place k
RECURSIVE ListsUpTo(_)
ListsUpTo(n) ==
  IF n = 0 THEN { << >> }
  ELSE LET shorter == ListsUpTo(n - 1)
       IN  shorter \cup { Append(l, [z |-> z, index |-> Len(l)]) :
                            l \in { m \in shorter : Len(m) = n - 1 }, z \in DepthValues }

\* timestamps handed to the clock: the steps of one period, and the ends of it
ClockStamps ==
  { (j * ANIMATION_PERIOD) \div MaxPhase : j \in 0..MaxPhase } \cup {1, ANIMATION_PERIOD - 1}

\* the z handed to the projection: MaxZSteps equal steps from the near pole of the
\* sphere (-SPHERE_RADIUS) to the far pole (SPHERE_RADIUS)
ZGrid ==
  { (k * 2 * SPHERE_RADIUS * LEN) \div MaxZSteps - SPHERE_RADIUS * LEN : k \in 0..MaxZSteps }

\* the x and y handed to the projection
XYGrid == { -(SPHERE_RADIUS * LEN), 0, (3 * SPHERE_RADIUS * LEN) \div 7 }

\* pairs z1 <= z2 within the sphere: grid points, and neighbours 0.01 and 1 apart
ZPairs ==
  { p \in (ZGrid \X (ZGrid \cup { z + d : z \in ZGrid, d \in {1, LEN} })) :
      p[1] <= p[2] /\ p[2] <= SPHERE_RADIUS * LEN /\ (p[2] \in ZGrid \/ p[2] - p[1] <= LEN) }

\* edge lists with one entry that names a node that does not exist
BrokenEdges ==
  { [k |-> k, edges |-> [InitialRelationshipEdges EXCEPT ![k] = e]] :
      k \in 1..MaxBroken,
      e \in { << 0, NUM_NODES >>, << -1, NUM_NODES - 1 >>, << NUM_NODES + 1, NUM_NODES >> } }

\* the page as designed
DesignedPage == Layout(TRUE, NUM_NODES, NUM_NODES, TRUE, TRUE, Len(InitialRelationshipEdges))

\* the state of the sphere graph before any call, but for the edge list
SphereAtLoad ==
  /\ SPHERE_NODES = InitialSphereNodes
  /\ animationFrameId = NULL
  /\ nodeElements = << >>
  /\ labelElements = << >>
  /\ relationshipEdges = << >>
  /\ nodesGroup = NULL
  /\ relationshipEdgesGroup = NULL
  /\ page = DesignedPage
  /\ dom = InitialDom(page)
  /\ pendingFrames = {}
  /\ nextFrameId = 1
  /\ now = 0
  /\ projectedNodes = << >>
  /\ lastCall = NoCall
  /\ running = FALSE

\* the state of the program before any call, but for the edge list
Untouched == SiteUntouched /\ SphereAtLoad

SortInputs ==
  { [applied |-> FALSE, idle |-> FALSE, in |-> l, out |-> << >>] : l \in ListsUpTo(MaxLen) }

ClockInputs ==
  { [applied |-> FALSE, idle |-> FALSE, timestamp |-> ts, k |-> k,
     base |-> << >>, shifted |-> << >>] : ts \in ClockStamps, k \in 0..MaxK }

ProjectInputs ==
  { [applied |-> FALSE, idle |-> FALSE, x |-> x, y |-> y, z1 |-> p[1], z2 |-> p[2],
     out1 |-> << >>, out2 |-> << >>] : x \in XYGrid, y \in XYGrid, p \in ZPairs }

NodesInputs ==
  { [applied |-> FALSE, idle |-> FALSE, n |-> n, heights |-> << >>, nodes |-> << >>] :
      n \in 1..MaxNodes }

EdgesInputs ==
  { [applied |-> FALSE, idle |-> FALSE, k |-> k] : k \in 1..MaxBroken }

\* the angles handed to the rotation: none, a sixth of a turn, quarter turns
RotAngles == { 0, PI \div 3, PI \div 2, PI, (3 * PI) \div 2 }

\* the points handed to the rotation: coordinates on the sphere's extent and at
\* its centre
RotPoints ==
  LET grid == { -(SPHERE_RADIUS * LEN), 0, SPHERE_RADIUS * LEN }
  IN  { [x |-> x, y |-> y, z |-> z] : x \in grid, y \in grid, z \in grid }

RotateInputs ==
  { [applied |-> FALSE, idle |-> FALSE, point |-> p,
     spinAngle |-> spin, tiltAngle |-> tilt, out |-> << >>] :
      p \in RotPoints, spin \in RotAngles, tilt \in RotAngles }

KernelInit ==
  /\ Untouched
  /\ \E which \in 1..6 :    \* exactly one kernel is handed an input
       /\ sortIO  \in (IF which = 1 THEN SortInputs ELSE {Idle})
       /\ tickIO  \in (IF which = 2 THEN ClockInputs ELSE {Idle})
       /\ projIO  \in (IF which = 3 THEN ProjectInputs ELSE {Idle})
       /\ nodesIO \in (IF which = 4 THEN NodesInputs ELSE {Idle})
       /\ edgesIO \in (IF which = 5 THEN EdgesInputs ELSE {Idle})
       /\ rotIO   \in (IF which = 6 THEN RotateInputs ELSE {Idle})
  /\ IF edgesIO.idle
     THEN RELATIONSHIP_EDGES = InitialRelationshipEdges
     ELSE RELATIONSHIP_EDGES \in { b.edges : b \in { c \in BrokenEdges : c.k = edgesIO.k } }

\* what no kernel touches
programVars == << arrays, moduleState, page, dom, pendingFrames, nextFrameId, now,
                 projectedNodes, lastCall, running, siteVars >>

\* projectedNodes.sort(...) on the list handed in
ApplySort ==
  /\ ~sortIO.idle /\ ~sortIO.applied
  /\ sortIO' = [sortIO EXCEPT !.applied = TRUE, !.out = SortByDepth(sortIO.in)]
  /\ UNCHANGED << programVars, tickIO, projIO, nodesIO, edgesIO, rotIO >>

\* the clock of a frame at timestamp, and of a frame k periods later
ApplyClock ==
  /\ ~tickIO.idle /\ ~tickIO.applied
  /\ tickIO' = [tickIO EXCEPT
                  !.applied = TRUE,
                  !.base    = AnimationClock(tickIO.timestamp),
                  !.shifted = AnimationClock(tickIO.timestamp + tickIO.k * ANIMATION_PERIOD)]
  /\ UNCHANGED << programVars, sortIO, projIO, nodesIO, edgesIO, rotIO >>

\* projectPerspective on the two points handed in
ApplyProject ==
  /\ ~projIO.idle /\ ~projIO.applied
  /\ projIO' = [projIO EXCEPT
                  !.applied = TRUE,
                  !.out1 = projectPerspective([x |-> projIO.x, y |-> projIO.y, z |-> projIO.z1]),
                  !.out2 = projectPerspective([x |-> projIO.x, y |-> projIO.y, z |-> projIO.z2])]
  /\ UNCHANGED << programVars, sortIO, tickIO, nodesIO, edgesIO, rotIO >>

\* the loop of module initialization run for n nodes
ApplyNodes ==
  /\ ~nodesIO.idle /\ ~nodesIO.applied
  /\ nodesIO' = [nodesIO EXCEPT
                   !.applied = TRUE,
                   !.heights = [k \in 1..nodesIO.n |-> NodeHeight(k - 1, nodesIO.n)],
                   !.nodes   = [k \in 1..nodesIO.n |-> SphereNode(k - 1, nodesIO.n)]]
  /\ UNCHANGED << programVars, sortIO, tickIO, projIO, edgesIO, rotIO >>

\* rotatePoint on the point and the angles handed in
ApplyRotate ==
  /\ ~rotIO.idle /\ ~rotIO.applied
  /\ rotIO' = [rotIO EXCEPT
                 !.applied = TRUE,
                 !.out = rotatePoint(rotIO.point, rotIO.spinAngle, rotIO.tiltAngle)]
  /\ UNCHANGED << programVars, sortIO, tickIO, projIO, nodesIO, edgesIO >>

\* the module with a broken edge list is started once on the page as designed
StartWithEdges ==
  /\ ~edgesIO.idle
  /\ lastCall.op = "none"
  /\ InitSphereGraph(CONTAINER)

\* ... and the host runs its frames
FrameWithEdges ==
  /\ ~edgesIO.idle
  /\ \E id \in pendingFrames, timestamp \in TimeStamps : Frame(id, timestamp)

KernelNext ==
  \/ ApplySort \/ ApplyClock \/ ApplyProject \/ ApplyNodes \/ ApplyRotate
  \/ StartWithEdges \/ FrameWithEdges

KernelSpec == KernelInit /\ [][KernelNext]_vars

-----------------------------------------------------------------------------
(* The other modules of the page, each under a specification of its own *)

\* the sphere graph's state, which these modules leave alone
sphereVars == << arrays, moduleState, page, dom, pendingFrames, nextFrameId, now,
                projectedNodes, lastCall, running >>

\* the sphere graph before any call, no kernel at work
SphereUntouched ==
  /\ SphereAtLoad
  /\ RELATIONSHIP_EDGES = InitialRelationshipEdges
  /\ sortIO = Idle /\ tickIO = Idle /\ projIO = Idle
  /\ nodesIO = Idle /\ edgesIO = Idle /\ rotIO = Idle

\* the whole page before any call
PageUntouched == SphereUntouched /\ SiteUntouched

\* time passes: d milliseconds, less than the earliest pending timer needs
Advance(d) ==
  /\ timers # << >>
  /\ d < MinRemaining(timers)
  /\ timers' = Elapse(timers, d)

\* time passes until the earliest pending timer is due
AdvanceToDue ==
  /\ timers # << >>
  /\ MinRemaining(timers) > 0
  /\ timers' = Elapse(timers, MinRemaining(timers))

-----------------------------------------------------------------------------
(* PanelSpec: main.js, showDetailPanel and hideDetailPanel with their timers *)

\* services[serviceIndex] of a clicked node: undefined, or one of two services
\* (every service of data/services.js has sub-services)
ClickedServices == { NULL, 1, 2 }

\* the time that passes between two events, when no timer comes due before
PanelWaits == { 5, 100 }

restOfPanel == << sphereVars, kernelVars, resizeVars, notifyVars, contactVars, logoVars >>

\* showDetailPanel(service)
showDetailPanel(panel, queue, id, service) ==
  IF service = NULL
  THEN [panel |-> panel, timers |-> queue, nextTimerId |-> id]
  ELSE [panel       |-> [panel EXCEPT !.service = service, !.display = "block"],
        timers      |-> SetTimeout(queue, id, "panelOpacity", 1, PANEL_SHOW_DELAY),
        nextTimerId |-> id + 1]

\* hideDetailPanel()
hideDetailPanel(panel, queue, id) ==
  [panel       |-> [panel EXCEPT !.opacity = 0],
   timers      |-> SetTimeout(queue, id, "panelDisplay", NULL, PANEL_HIDE_DELAY),
   nextTimerId |-> id + 1]

\* a click on a category node
ShowDetailPanel(service) ==
  /\ Len(panelCalls) < MaxPanelCalls
  /\ LET r == showDetailPanel(detailPanel, timers, nextTimerId, service)
     IN  /\ detailPanel' = r.panel
         /\ timers' = r.timers
         /\ nextTimerId' = r.nextTimerId
  /\ panelCalls' = Append(panelCalls, [op |-> "show", service |-> service])
  /\ UNCHANGED restOfPanel

\* a click on the panel's close button, which a show has put there
HideDetailPanel ==
  /\ Len(panelCalls) < MaxPanelCalls
  /\ detailPanel.service # NULL
  /\ LET r == hideDetailPanel(detailPanel, timers, nextTimerId)
     IN  /\ detailPanel' = r.panel
         /\ timers' = r.timers
         /\ nextTimerId' = r.nextTimerId
  /\ panelCalls' = Append(panelCalls, [op |-> "hide", service |-> NULL])
  /\ UNCHANGED restOfPanel

\* the host runs the panel timer that is due
PanelTimerFires ==
  /\ DueTimer(timers) # 0
  /\ LET t == timers[DueTimer(timers)]
     IN  /\ t.op \in { "panelOpacity", "panelDisplay" }
         /\ detailPanel' = IF t.op = "panelOpacity"
                            THEN [detailPanel EXCEPT !.opacity = 1]
                            ELSE [detailPanel EXCEPT !.display = "none"]
  /\ timers' = WithoutTimer(timers, DueTimer(timers))
  /\ UNCHANGED << nextTimerId, panelCalls, restOfPanel >>

PanelTimePasses ==
  /\ \/ \E d \in PanelWaits : Advance(d)
     \/ AdvanceToDue
  /\ UNCHANGED << nextTimerId, detailPanel, panelCalls, restOfPanel >>

PanelNext ==
  \/ \E service \in ClickedServices : ShowDetailPanel(service)
  \/ HideDetailPanel
  \/ PanelTimerFires
  \/ PanelTimePasses

PanelSpec == PageUntouched /\ [][PanelNext]_vars

-----------------------------------------------------------------------------
(* ResizeSpec: main.js, initServices and the debounced handleResize *)

\* viewport widths on both sides of the breakpoint, and next to it
Widths == { 800, DESKTOP_BREAKPOINT, DESKTOP_BREAKPOINT + 1, 1400 }

\* which of the two containers the page's markup holds
Markups == { [graph |-> g, grid |-> c] : g \in BOOLEAN, c \in BOOLEAN }

ResizeWaits == { 100 }

restOfResize == << sphereVars, kernelVars, panelVars, notifyVars, contactVars, logoVars >>

\* the page has been loaded by a viewport of some width: init() has run
ResizeInit ==
  /\ SphereUntouched
  /\ HostUntouched
  /\ PanelUntouched
  /\ NotifyUntouched
  /\ ContactUntouched
  /\ LogoUntouched
  /\ innerWidth \in Widths
  /\ containers \in Markups
  /\ hiddenClasses = initServices(innerWidth, containers)
  /\ resizeTimeout = NULL
  /\ resizeLog = LoadedAt(innerWidth, 0)

\* handleResize(): does it call location.reload()
handleResize(currentWidth, present, hidden) ==
  IF currentWidth > DESKTOP_BREAKPOINT /\ present.grid /\ ~hidden.grid
  THEN TRUE
  ELSE currentWidth <= DESKTOP_BREAKPOINT /\ present.graph /\ ~hidden.graph

\* the window's resize event: the listener restarts the debounce timer
WindowResize(width) ==
  /\ resizeLog.resizes < MaxResizes
  /\ width # innerWidth
  /\ innerWidth' = width
  /\ timers' = SetTimeout(ClearTimeout(timers, resizeTimeout), nextTimerId,
                          "handleResize", NULL, RESIZE_DEBOUNCE)
  /\ resizeTimeout' = nextTimerId
  /\ nextTimerId' = nextTimerId + 1
  /\ resizeLog' = [resizeLog EXCEPT !.resizes = @ + 1]
  /\ UNCHANGED << containers, hiddenClasses, restOfResize >>

\* the debounce timer fires: handleResize runs, and a reload loads the page
\* anew at the current width (its timers are gone with the old document)
ResizeTimerFires ==
  /\ DueTimer(timers) # 0
  /\ timers[DueTimer(timers)].op = "handleResize"
  /\ IF handleResize(innerWidth, containers, hiddenClasses)
     THEN /\ timers' = << >>
          /\ nextTimerId' = 1
          /\ resizeTimeout' = NULL
          /\ hiddenClasses' = initServices(innerWidth, containers)
     ELSE /\ timers' = WithoutTimer(timers, DueTimer(timers))
          /\ UNCHANGED << nextTimerId, resizeTimeout, hiddenClasses >>
  /\ resizeLog' = [widthAtInit |-> IF handleResize(innerWidth, containers, hiddenClasses)
                                    THEN innerWidth ELSE resizeLog.widthAtInit,
                   before      |-> resizeLog.widthAtInit,
                   resizes     |-> resizeLog.resizes,
                   handled     |-> TRUE,
                   reloaded    |-> handleResize(innerWidth, containers, hiddenClasses),
                   width       |-> innerWidth]
  /\ UNCHANGED << innerWidth, containers, restOfResize >>

ResizeTimePasses ==
  /\ \/ \E d \in ResizeWaits : Advance(d)
     \/ AdvanceToDue
  /\ UNCHANGED << nextTimerId, resizeVars, restOfResize >>

ResizeNext ==
  \/ \E width \in Widths : WindowResize(width)
  \/ ResizeTimerFires
  \/ ResizeTimePasses

ResizeSpec == ResizeInit /\ [][ResizeNext]_vars

-----------------------------------------------------------------------------
(* ContactSpec: contact.js, handleSubmit with the rules of config/validation.js *)

\* strings are sequences of characters
RECURSIVE StringsUpTo(_, _)
StringsUpTo(chars, n) ==
  IF n = 0 THEN { << >> }
  ELSE LET shorter == StringsUpTo(chars, n - 1)
       IN  shorter \cup { Append(str, c) : str \in { t \in shorter : Len(t) = n - 1 }, c \in chars }

\* n letters
Letters(n) == [k \in 1..n |-> "a"]

\* what \s of the pattern and trim() take for white space
IsSpace(c) == c = " "

\* String.prototype.trim()
RECURSIVE Trim(_)
Trim(str) ==
  IF str = << >> THEN str
  ELSE IF IsSpace(Head(str)) THEN Trim(Tail(str))
  ELSE IF IsSpace(str[Len(str)]) THEN Trim(SubSeq(str, 1, Len(str) - 1))
  ELSE str

\* [^\s@]+ on a whole string
PlainRun(str) == str # << >> /\ \A k \in DOMAIN str : ~IsSpace(str[k]) /\ str[k] # "@"

\* EMAIL_REGEX.test(str): /^[^\s@]+@[^\s@]+\.[^\s@]+$/
EMAIL_REGEX(str) ==
  \E i, j \in DOMAIN str :
    /\ i < j
    /\ str[i] = "@" /\ str[j] = "."
    /\ PlainRun(SubSeq(str, 1, i - 1))
    /\ PlainRun(SubSeq(str, i + 1, j - 1))
    /\ PlainRun(SubSeq(str, j + 1, Len(str)))

\* Object.entries(validationRules): the fields in the order of the object's keys
RuleFields == << "name", "email", "message" >>

\* validationRules[field].validate(value)
Validate(field, value) ==
  IF field = "name" THEN value # << >> /\ Len(value) >= MIN_NAME_LENGTH
  ELSE IF field = "email" THEN value # << >> /\ EMAIL_REGEX(value)
  ELSE value # << >> /\ Len(value) >= MIN_MESSAGE_LENGTH

\* validationRules[field].getMessage()
GetMessage(field) ==
  IF field = "name" THEN "Name must be at least 2 characters"
  ELSE IF field = "email" THEN "Please enter a valid email address"
  ELSE "Message must be at least 10 characters"

SUCCESS_MESSAGE == "Thank you for your message! We'll get back to you soon."

\* a validation that goes on to the next rule after a failure
RECURSIVE validateEveryRuleFrom(_, _)
validateEveryRuleFrom(data, k) ==
  IF k > Len(RuleFields) THEN << >>
  ELSE IF ~Validate(RuleFields[k], data[RuleFields[k]])
       THEN << GetMessage(RuleFields[k]) >> \o validateEveryRuleFrom(data, k + 1)
       ELSE validateEveryRuleFrom(data, k + 1)

\* the loop of validateFormData from rule k on: the errors it shows (it returns
\* false at the first one, true when it shows none)
RECURSIVE validateFormDataFrom(_, _)
validateFormDataFrom(data, k) ==
  IF k > Len(RuleFields) THEN << >>
  ELSE IF ~Validate(RuleFields[k], data[RuleFields[k]])
       THEN << GetMessage(RuleFields[k]) >>
       ELSE validateFormDataFrom(data, k + 1)

\* the values handleSubmit reads from the form
FormData(values) ==
  [name |-> Trim(values.name), email |-> Trim(values.email), message |-> Trim(values.message)]

\* the field values the user has typed
NameInputs == StringsUpTo({ "a", " " }, MaxNameLen)

EmailInputs ==
  StringsUpTo({ "a", "@", "." }, MaxEmailLen)
    \cup { << " " >> \o e \o << " " >> : e \in { << "a", "@", "a", ".", "a" >>, << "a", "@", "a" >> } }
    \cup { << "a", " ", "@", "a", ".", "a" >>, << "a", "@", "a", ".", " ", "a" >> }

MessageInputs ==
  { Letters(n) : n \in { 0, MIN_MESSAGE_LENGTH - 1, MIN_MESSAGE_LENGTH, MIN_MESSAGE_LENGTH + 1 } }
    \cup { << " " >> \o Letters(n) \o << " " >> : n \in { MIN_MESSAGE_LENGTH - 1, MIN_MESSAGE_LENGTH } }

\* the forms submitted: every value of one field with one passing and one
\* failing value of each of the others
FormInputs ==
  LET fewNames    == { Letters(MIN_NAME_LENGTH), Letters(MIN_NAME_LENGTH - 1) }
      fewEmails   == { << "a", "@", "a", ".", "a" >>, << "a", "@", "a" >> }
      fewMessages == { Letters(MIN_MESSAGE_LENGTH), Letters(MIN_MESSAGE_LENGTH - 1) }
  IN  { [name |-> n, email |-> e, message |-> m] :
          n \in NameInputs, e \in fewEmails, m \in fewMessages }
        \cup { [name |-> n, email |-> e, message |-> m] :
                 n \in fewNames, e \in EmailInputs, m \in fewMessages }
        \cup { [name |-> n, email |-> e, message |-> m] :
                 n \in fewNames, e \in fewEmails, m \in MessageInputs }

restOfContact == << sphereVars, kernelVars, panelVars, resizeVars, logoVars >>

\* the user has filled in the form
ContactInit ==
  /\ SphereUntouched
  /\ HostUntouched
  /\ PanelUntouched
  /\ ResizeUntouched
  /\ NotifyUntouched
  /\ LogoUntouched
  /\ form \in FormInputs
  /\ submitLog = [submits |-> 0, data |-> EmptyForm, before |-> EmptyForm, shown |-> 0]

\* showError(message) for each error the validation shows, in order
RECURSIVE ShowErrors(_, _)
ShowErrors(host, errors) ==
  IF errors = << >> THEN host
  ELSE ShowErrors(showNotification(host.notifications, host.timers, host.nextTimerId,
                                   host.pendingPaints, Head(errors), "error"),
                  Tail(errors))

\* handleSubmit(e): validation, then nothing more after an error, or the success
\* message and the reset
HandleSubmit ==
  /\ submitLog.submits < MaxSubmits
  /\ LET data    == FormData(form)
         errors  == validateFormDataFrom(data, 1)
         host    == [notifications |-> notifications, pendingPaints |-> pendingPaints,
                     timers |-> timers, nextTimerId |-> nextTimerId]
         checked == ShowErrors(host, errors)
         r == IF errors # << >>
              THEN checked
              ELSE showNotification(checked.notifications, checked.timers, checked.nextTimerId,
                                    checked.pendingPaints, SUCCESS_MESSAGE, "success")
     IN  /\ notifications' = r.notifications
         /\ pendingPaints' = r.pendingPaints
         /\ timers' = r.timers
         /\ nextTimerId' = r.nextTimerId
         /\ form' = IF errors # << >> THEN form ELSE EmptyForm
         /\ submitLog' = [submits |-> submitLog.submits + 1, data |-> data, before |-> form,
                          shown |-> Len(notifications)]
  /\ UNCHANGED restOfContact

ContactSpec == ContactInit /\ [][HandleSubmit]_vars

-----------------------------------------------------------------------------
(* NotifySpec: the toast notifications with their timers and close button *)

\* the type showNotification is called with: its default
NotificationTypes == { "info" }

\* the time that passes before a click: most of DURATION
NotifyWaits == { DURATION - 200 }

restOfNotify == << sphereVars, kernelVars, panelVars, resizeVars, contactVars, logoVars >>

\* showNotification(message, type)
ShowNotification(type) ==
  /\ Len(notifications) < MaxNotifications
  /\ LET r == showNotification(notifications, timers, nextTimerId, pendingPaints,
                               "message", type)
     IN  /\ notifications' = r.notifications
         /\ pendingPaints' = r.pendingPaints
         /\ timers' = r.timers
         /\ nextTimerId' = r.nextTimerId
  /\ UNCHANGED restOfNotify

\* the clicks made so far on the close buttons of the notifications from n on
RECURSIVE ClicksFrom(_, _)
ClicksFrom(notes, n) ==
  IF n > Len(notes) THEN 0 ELSE notes[n].clicks + ClicksFrom(notes, n + 1)

\* a click on the close button of a notification that is in the document
CloseClick(n) ==
  /\ notifications[n].inDocument
  /\ ClicksFrom(notifications, 1) < MaxClicks
  /\ LET r == hideNotification(notifications, timers, nextTimerId, n)
     IN  /\ notifications' = [r.notifications EXCEPT ![n].clicks = @ + 1]
         /\ timers' = r.timers
         /\ nextTimerId' = r.nextTimerId
  /\ UNCHANGED << pendingPaints, restOfNotify >>

\* the host runs the frame callback of showNotification: the element, in the
\* document or not, gets its visible class
PaintFrame(n) ==
  /\ n \in pendingPaints
  /\ notifications' = [notifications EXCEPT ![n].visible = TRUE]
  /\ pendingPaints' = pendingPaints \ { n }
  /\ UNCHANGED << hostVars, restOfNotify >>

\* the host runs the notification timer that is due: the auto-hide after
\* DURATION, or a removal after ANIMATION_DELAY
NotificationTimerFires ==
  /\ DueTimer(timers) # 0
  /\ LET k == DueTimer(timers)
         t == timers[k]
         r == hideNotification(notifications, WithoutTimer(timers, k), nextTimerId, t.arg)
     IN  /\ t.op \in { "hideNotification", "remove" }
         /\ IF t.op = "hideNotification"
            THEN /\ notifications' = r.notifications
                 /\ timers' = r.timers
                 /\ nextTimerId' = r.nextTimerId
            ELSE /\ notifications' = RemoveElement(notifications, t.arg)
                 /\ timers' = WithoutTimer(timers, k)
                 /\ UNCHANGED nextTimerId
  /\ UNCHANGED << pendingPaints, restOfNotify >>

NotifyTimePasses ==
  /\ \/ \E d \in NotifyWaits : Advance(d)
     \/ AdvanceToDue
  /\ UNCHANGED << nextTimerId, notifyVars, restOfNotify >>

NotifyNext ==
  \/ \E type \in NotificationTypes : ShowNotification(type)
  \/ \E n \in DOMAIN notifications : CloseClick(n)
  \/ \E n \in pendingPaints : PaintFrame(n)
  \/ NotificationTimerFires
  \/ NotifyTimePasses

\* the host's event loop: time goes on, and a timer that is due is run
NotifyLiveSpec ==
  /\ PageUntouched /\ [][NotifyNext]_vars
  /\ WF_vars(NotificationTimerFires) /\ WF_vars(NotifyTimePasses)

-----------------------------------------------------------------------------
(* LogoSpec: the animated logo, cycled by click, Enter or Space *)

\* pathsByDistribution[distributionNames[d]]: TOTAL_CURVES paths, each generated
\* from the distribution and the curve's number
PathsOf(d) == [c \in 1..TOTAL_CURVES |-> [distribution |-> d, curveIndex |-> c - 1]]

\* a renderPaths that never removes the curves that are there
renderPathsOnTop(curves, d, clearExisting) == curves \o PathsOf(d)

\* renderPaths(svg, distName, clearExisting): the .logo__curve elements afterwards
renderPaths(curves, d, clearExisting) ==
  (IF clearExisting THEN << >> ELSE curves) \o PathsOf(d)

\* e.key of the keys pressed on the logo
Keys == { "Enter", " ", "Tab" }

restOfLogo == << sphereVars, kernelVars, hostVars, panelVars, resizeVars, notifyVars,
                contactVars >>

\* the page's markup holds the logo element, or does not
LogoInit ==
  /\ SphereUntouched
  /\ HostUntouched
  /\ PanelUntouched
  /\ ResizeUntouched
  /\ NotifyUntouched
  /\ ContactUntouched
  /\ currentIndex = 0
  /\ logo \in { LogoMarkup(present) : present \in BOOLEAN }
  /\ logoLog = [events |-> 0, activations |-> 0, last |-> "none"]

\* initLogo(), called once by the page's entry point
InitLogo ==
  /\ logoLog.last = "none"
  /\ logo' = IF logo.present
             THEN [logo EXCEPT !.listening = TRUE,
                               !.curves = renderPaths(logo.curves, currentIndex, FALSE)]
             ELSE logo
  /\ logoLog' = [logoLog EXCEPT !.last = "init"]
  /\ UNCHANGED << currentIndex, restOfLogo >>

\* cycleDistribution(logo)
CycleDistribution ==
  /\ currentIndex' = (currentIndex + 1) % DISTRIBUTION_COUNT
  /\ logo' = [logo EXCEPT !.curves = renderPaths(logo.curves, currentIndex', TRUE)]

\* a click on the logo
LogoClick ==
  /\ logo.listening
  /\ logoLog.events < MaxEvents
  /\ CycleDistribution
  /\ logoLog' = [events |-> logoLog.events + 1, activations |-> logoLog.activations + 1,
                 last |-> "click"]
  /\ UNCHANGED restOfLogo

\* a key pressed on the logo: Enter and Space cycle, other keys do nothing
LogoKeyDown(key) ==
  /\ logo.listening
  /\ logoLog.events < MaxEvents
  /\ IF key = "Enter" \/ key = " "
     THEN /\ CycleDistribution
          /\ logoLog' = [events |-> logoLog.events + 1,
                         activations |-> logoLog.activations + 1, last |-> key]
     ELSE /\ UNCHANGED << currentIndex, logo >>
          /\ logoLog' = [events |-> logoLog.events + 1,
                         activations |-> logoLog.activations, last |-> key]
  /\ UNCHANGED restOfLogo

LogoNext ==
  \/ InitLogo
  \/ LogoClick
  \/ \E key \in Keys : LogoKeyDown(key)

LogoSpec == LogoInit /\ [][LogoNext]_vars

----------------------------------------------------------------------------
(* Claims *)

\* what a call may change besides the model's own records of the run
programState == << arrays, moduleState, page, dom, pendingFrames, nextFrameId, now >>

\* C1: once stopSphereGraph has returned, and until the next start, no frame
\* callback is pending (so no frame runs).
C1_NothingPendingAfterStop ==
  (lastCall.op # "none" /\ ~running) => pendingFrames = {}

\* C2: stopSphereGraph is idempotent: a stop that directly follows a stop, and a
\* stop while animationFrameId is null, raises nothing, cancels nothing and
\* leaves every module variable (and the rest of the program state) unchanged.
C2_StopIdempotent ==
  [][ (lastCall'.op = "stop" /\ (lastCall.op = "stop" \/ animationFrameId = NULL))
        => (UNCHANGED programState /\ ~lastCall'.raised) ]_vars

\* a stop was called although no frame was ever requested
C2_Witness ==
  lastCall.op = "stop" /\ nextFrameId = 1 /\ animationFrameId = NULL /\ pendingFrames = {}

\* C3: after a start on a container that holds a .service-graph element, and
\* until a stop, every frame schedules the next one: the loop never ends by
\* itself, the callback animationFrameId names is pending.
C3_LoopNeverEndsByItself ==
  running => (animationFrameId # NULL /\ animationFrameId \in pendingFrames)

\* the container or an expected sub-element of it is absent
SomethingMissing(container, layout) ==
  \/ container = NULL
  \/ ~layout.svg
  \/ layout.nodes = 0
  \/ ~layout.group
  \/ ~layout.edges

\* C4 as stated: initSphereGraph with the container or any expected sub-element
\* (svg, category nodes, nodes group, edges group) absent raises nothing,
\* schedules nothing and leaves the module state unchanged.
C4_AbortsOnAnyMissingElement ==
  [][ (lastCall'.op = "init" /\ SomethingMissing(lastCall'.container, page))
        => (UNCHANGED << moduleState, pendingFrames >> /\ ~lastCall'.raised) ]_vars

\* C4 as amended: initSphereGraph aborts (raises nothing, schedules nothing,
\* module state unchanged) exactly when the container or its .service-graph
\* element is absent; when only the category nodes, the nodes group or the
\* edges group are absent it binds what it finds (an empty node list, a null
\* group, the line list left as it was) and schedules one frame.
C4_AbortsOnlyWithoutContainerOrSvg ==
  [][ lastCall'.op = "init" =>
        /\ ~lastCall'.raised
        /\ IF lastCall'.container = NULL \/ ~page.svg
           THEN UNCHANGED << moduleState, pendingFrames, nextFrameId >>
           ELSE /\ animationFrameId' \notin pendingFrames
                /\ pendingFrames' = pendingFrames \cup {animationFrameId'}
                /\ Len(nodeElements') = page.nodes
                /\ nodesGroup' = NULL <=> ~page.group
                /\ relationshipEdgesGroup' = NULL <=> ~page.edges
                /\ ~page.edges => relationshipEdges' = relationshipEdges ]_vars

\* a start was aborted while an earlier start's loop is running
C4_Witness ==
  /\ lastCall.op = "init"
  /\ lastCall.container = NULL \/ ~page.svg
  /\ nextFrameId = 1 \/ animationFrameId \in pendingFrames

\* a frame has run
FrameHasRun == projectedNodes # << >>

\* C5: in every frame the projected nodes are ordered farthest first, nearest
\* last: z never increases along the sorted list, the list holds every node
\* index 0 .. N-1 exactly once, and depths 5, -5, 0 are ordered 5, 0, -5.
C5_SortedFarthestFirst ==
  /\ FrameHasRun =>
       /\ \A i, j \in DOMAIN projectedNodes :
            i < j => projectedNodes[i].z >= projectedNodes[j].z
       /\ Len(projectedNodes) = NUM_NODES
       /\ \A n \in 0..(NUM_NODES - 1) :
            Cardinality({ k \in DOMAIN projectedNodes : projectedNodes[k].index = n }) = 1
  /\ LET out == SortByDepth(<< [z |-> 5, index |-> 0], [z |-> -5, index |-> 1],
                               [z |-> 0, index |-> 2] >>)
     IN  [k \in 1..3 |-> out[k].z] = << 5, 0, -5 >>

\* a frame whose sort moved nodes: the farthest node is not node 0, the nearest not node 6
C5_Witness ==
  /\ lastCall.op = "frame"
  /\ projectedNodes[1].index # 0
  /\ projectedNodes[NUM_NODES].index # NUM_NODES - 1

\* C6: nodes of equal z keep their original index order in the sorted list.
C6_TiesKeepIndexOrder ==
  sortIO.applied =>
    /\ Len(sortIO.out) = Len(sortIO.in)
    /\ \A i, j \in DOMAIN sortIO.out :
         (i < j /\ sortIO.out[i].z = sortIO.out[j].z) => sortIO.out[i].index < sortIO.out[j].index

\* two nodes of equal depth with a farther node between them were sorted
C6_Witness ==
  /\ sortIO.applied
  /\ Len(sortIO.in) = 3
  /\ sortIO.in[1].z = 0 /\ sortIO.in[2].z = 5 /\ sortIO.in[3].z = 0
  /\ sortIO.out[2].index = 0 /\ sortIO.out[3].index = 2

\* the index a node element is bound to, in child order, for the bound elements
OrderByIndex(d, nodeEls) ==
  [k \in DOMAIN d.nodeOrder |->
     CHOOSE i \in 0..Len(nodeEls) : (i < Len(nodeEls) /\ nodeEls[i + 1] = d.nodeOrder[k])
                                   \/ (i = Len(nodeEls) /\ \A j \in DOMAIN nodeEls : nodeEls[j] # d.nodeOrder[k])]

\* what the document shows per node index: node and label attributes by the index
\* they are bound to, the lines, and the child order of the bound node elements
Shown(d, nodeEls, labelEls) ==
  [nodes  |-> [i \in 0..(NUM_NODES - 1) |->
                 IF At(nodeEls, i) # NULL THEN d.nodeAttr[At(nodeEls, i)] ELSE UNSET],
   labels |-> [i \in 0..(NUM_NODES - 1) |->
                 IF At(labelEls, i) # NULL THEN d.labelAttr[At(labelEls, i)] ELSE UNSET],
   lines  |-> d.lineAttr,
   order  |-> OrderByIndex(d, nodeEls)]

\* the same page right after its first start, and one frame at this timestamp on it
FirstFrame(timestamp) ==
  FrameBody(timestamp, SPHERE_NODES, RELATIONSHIP_EDGES,
            QueryNodeElements(InitialDom(page)), QueryLabelElements(SPHERE_NODES, page),
            IF page.edges THEN [k \in 1..page.lines |-> k] ELSE << >>,
            IF page.group THEN GROUP ELSE NULL, InitialDom(page))

C8_ClockPeriodic ==
  tickIO.applied =>
    /\ tickIO.shifted = tickIO.base
    /\ tickIO.base.t >= 0 /\ tickIO.base.t < TRIG

\* the clock two periods after the last millisecond of a period
C8_Witness ==
  tickIO.applied /\ tickIO.k = 2 /\ tickIO.timestamp = ANIMATION_PERIOD - 1

\* C9: no start, stop or frame changes SPHERE_NODES or RELATIONSHIP_EDGES: they
\* stay what module initialization made them.
C9_ArraysNeverChange ==
  /\ SPHERE_NODES = InitialSphereNodes
  /\ RELATIONSHIP_EDGES = InitialRelationshipEdges

\* a second frame has sorted its projected nodes into another order than the nodes'
C9_Witness ==
  /\ lastCall.op = "frame"
  /\ nextFrameId > 3
  /\ \E k \in DOMAIN projectedNodes : projectedNodes[k].index # SPHERE_NODES[k].index

\* C10: the node at position i of SPHERE_NODES has index i, for i in 0 .. N-1, and
\* the projected nodes of a frame carry exactly these indices.
C10_IndicesDenseAndUnique ==
  /\ Len(SPHERE_NODES) = NUM_NODES
  /\ \A k \in DOMAIN SPHERE_NODES : SPHERE_NODES[k].index = k - 1
  /\ FrameHasRun =>
       /\ Len(projectedNodes) = NUM_NODES
       /\ { projectedNodes[k].index : k \in DOMAIN projectedNodes } = 0..(NUM_NODES - 1)

\* a frame has run on a page with fewer node elements than nodes
C10_Witness ==
  FrameHasRun /\ page.nodes < NUM_NODES /\ page.svg

\* C11: every entry of RELATIONSHIP_EDGES names two different nodes, both in
\* 0 .. N-1, so in every frame both lookups find a projected node and every
\* bound line that has an entry is written.
C11_EdgesNameExistingNodes ==
  /\ \A k \in DOMAIN RELATIONSHIP_EDGES :
       /\ RELATIONSHIP_EDGES[k][1] # RELATIONSHIP_EDGES[k][2]
       /\ RELATIONSHIP_EDGES[k][1] \in 0..(NUM_NODES - 1)
       /\ RELATIONSHIP_EDGES[k][2] \in 0..(NUM_NODES - 1)
  /\ FrameHasRun =>
       \A k \in DOMAIN RELATIONSHIP_EDGES :
         /\ FindByIndex(projectedNodes, RELATIONSHIP_EDGES[k][1], 1) # 0
         /\ FindByIndex(projectedNodes, RELATIONSHIP_EDGES[k][2], 1) # 0
  /\ lastCall.op = "frame" =>
       \A k \in DOMAIN relationshipEdges :
         k <= Len(RELATIONSHIP_EDGES) => dom.lineAttr[relationshipEdges[k]].written

\* a frame has written all eight lines of the page as designed
C11_Witness ==
  /\ lastCall.op = "frame"
  /\ Len(relationshipEdges) = Len(RELATIONSHIP_EDGES)
  /\ \A k \in DOMAIN relationshipEdges : dom.lineAttr[relationshipEdges[k]].written

\* C12 as stated: of two points of equal (x, y) within the sphere, the one
\* with the smaller z is projected with the strictly smaller scale.
C12_ScaleGrowsWithZ ==
  (projIO.applied /\ projIO.z1 < projIO.z2) => projIO.out1.scale < projIO.out2.scale

\* C12 as amended: of two points of equal (x, y) within the sphere, the one
\* with the smaller z (nearer to the camera) is never projected with the
\* smaller scale, and with a strictly greater scale when the two z are a
\* whole SVG unit or more apart.
C12_ScaleShrinksWithZ ==
  (projIO.applied /\ projIO.z1 < projIO.z2) =>
    /\ projIO.out1.scale >= projIO.out2.scale
    /\ projIO.z2 - projIO.z1 >= LEN => projIO.out1.scale > projIO.out2.scale

\* two points one SVG unit apart on the far half of the sphere, where the scale
\* changes least
C12_Witness ==
  /\ projIO.applied
  /\ projIO.z1 > 0
  /\ projIO.z2 - projIO.z1 = LEN
  /\ projIO.out1.scale > projIO.out2.scale

\* C13: every opacity a frame writes to a node element lies in [0.4, 1.0],
\* every opacity it writes to a label element in [0.3, 1.0].
C13_OpacityWithinBounds ==
  /\ \A e \in DOMAIN dom.nodeAttr :
       dom.nodeAttr[e].written => (dom.nodeAttr[e].opacity >= 40 /\ dom.nodeAttr[e].opacity <= 100)
  /\ \A e \in DOMAIN dom.labelAttr :
       dom.labelAttr[e].written => (dom.labelAttr[e].opacity >= 30 /\ dom.labelAttr[e].opacity <= 100)

\* C14: for every n >= 1 the distribution gives n nodes, numbered 0 .. n-1 in
\* order, whose heights are strictly decreasing and strictly between -1 and 1,
\* so no two nodes coincide; the distribution for NUM_NODES is SPHERE_NODES.
C14_HeightsStrictlyDecreasing ==
  nodesIO.applied =>
    /\ Len(nodesIO.heights) = nodesIO.n
    /\ Len(nodesIO.nodes) = nodesIO.n
    /\ \A k \in 1..nodesIO.n :
         /\ nodesIO.heights[k] > -TRIG
         /\ nodesIO.heights[k] < TRIG
         /\ nodesIO.nodes[k].index = k - 1
    /\ \A j, k \in 1..nodesIO.n :
         j < k => /\ nodesIO.heights[j] > nodesIO.heights[k]
                  /\ nodesIO.nodes[j].phi > nodesIO.nodes[k].phi
    /\ nodesIO.n = NUM_NODES => nodesIO.nodes = SPHERE_NODES

\* the distribution was run for a single node, which lies on the equator
C14_Witness ==
  nodesIO.applied /\ nodesIO.n = 1 /\ nodesIO.heights = << 0 >>

\* C15: SPHERE_RADIUS < CAMERA_DISTANCE, and so the depth CAMERA_DISTANCE + z
\* and the scale are strictly positive for every node of every frame, and for
\* every z from the near pole to the far pole of the sphere.
C15_DepthAndScalePositive ==
  /\ SPHERE_RADIUS < CAMERA_DISTANCE
  /\ \A z \in ZGrid :
       /\ CAMERA_DISTANCE * LEN + z > 0
       /\ projectPerspective([x |-> 0, y |-> 0, z |-> z]).scale > 0
  /\ \A k \in DOMAIN projectedNodes :
       /\ CAMERA_DISTANCE * LEN + projectedNodes[k].z > 0
       /\ projectedNodes[k].scale > 0

\* a frame with a node near the near pole of the sphere, where the depth is least
C15_Witness ==
  /\ lastCall.op = "frame"
  /\ \E k \in DOMAIN projectedNodes : 10 * projectedNodes[k].z < -(9 * SPHERE_RADIUS * LEN)

\* the node elements bound to a node index
BoundElements == { nodeElements[k] : k \in { j \in DOMAIN nodeElements : j <= NUM_NODES } }

\* the z the latest frame computed for the node an element is bound to
ZOfElement(e) ==
  LET k == CHOOSE j \in DOMAIN nodeElements : nodeElements[j] = e
  IN  projectedNodes[FindByIndex(projectedNodes, k - 1, 1)].z

\* the last children of the nodes group, as many as there are bound elements
LastChildren ==
  SubSeq(dom.nodeOrder, Len(dom.nodeOrder) - Cardinality(BoundElements) + 1, Len(dom.nodeOrder))

\* C16: after every frame on a page with a nodes group, the bound node
\* elements are the last children of the group, in far-to-near order: an
\* element whose node has the greater z comes earlier.
C16_ChildrenFarToNear ==
  (lastCall.op = "frame" /\ nodesGroup # NULL) =>
    /\ { LastChildren[i] : i \in DOMAIN LastChildren } = BoundElements
    /\ \A i, j \in DOMAIN LastChildren :
         ZOfElement(LastChildren[i]) > ZOfElement(LastChildren[j]) => i < j

\* a second frame, at another time, has reordered what the first frame had ordered
C16_Witness ==
  /\ lastCall.op = "frame"
  /\ nodesGroup # NULL
  /\ page.nodes = NUM_NODES
  /\ nextFrameId > 2
  /\ now > 0
  /\ dom.nodeOrder # FirstFrame(0).dom.nodeOrder

\* the projected node of the latest frame that carries node index i
ProjectedOf(i) ==
  CHOOSE q \in { projectedNodes[k] : k \in DOMAIN projectedNodes } : q.index = i

\* C17: after every frame, each bound line idx that has an entry in
\* RELATIONSHIP_EDGES has x1/y1 = screenX/screenY this frame computed for node
\* RELATIONSHIP_EDGES[idx][0] and x2/y2 = those of node RELATIONSHIP_EDGES[idx][1],
\* wherever the depth sort has put these nodes.
C17_LinesJoinTheirNodes ==
  lastCall.op = "frame" =>
    \A k \in DOMAIN relationshipEdges :
      k <= Len(RELATIONSHIP_EDGES) =>
        LET line == dom.lineAttr[relationshipEdges[k]]
            from == ProjectedOf(RELATIONSHIP_EDGES[k][1])
            to   == ProjectedOf(RELATIONSHIP_EDGES[k][2])
        IN  /\ line.written
            /\ line.x1 = from.screenX /\ line.y1 = from.screenY
            /\ line.x2 = to.screenX /\ line.y2 = to.screenY

\* a frame has written lines after its sort put no node of the first edge at its own place
C17_Witness ==
  /\ lastCall.op = "frame"
  /\ Len(relationshipEdges) > 0
  /\ projectedNodes[RELATIONSHIP_EDGES[1][1] + 1].index # RELATIONSHIP_EDGES[1][1]
  /\ projectedNodes[RELATIONSHIP_EDGES[1][2] + 1].index # RELATIONSHIP_EDGES[1][2]
  /\ dom.lineAttr[relationshipEdges[1]].written

\* the element bindings initSphereGraph makes
bindings == << nodeElements, labelElements, relationshipEdges, nodesGroup, relationshipEdgesGroup >>

\* C18: the bindings are made in initSphereGraph only: a frame (and a stop)
\* leaves nodeElements, labelElements, relationshipEdges, nodesGroup and
\* relationshipEdgesGroup as they are, also when it has changed the order of
\* the elements in the document.
C18_OnlyInitBinds ==
  [][ lastCall'.op # "init" => UNCHANGED bindings ]_vars

\* after a frame the node elements are bound in another order than a new lookup
\* in the document would give
C18_Witness ==
  /\ lastCall.op = "frame"
  /\ nodeElements # << >>
  /\ nodeElements # QueryNodeElements(dom)

\* C19: with an edge list whose entry k names a node that has no projected
\* node, no frame raises, every frame schedules the next one, no frame
\* changes line k (it stays as the markup gave it), and every frame writes
\* every other line as usual.
C19_UnknownIndexSkipsThatEdge ==
  ~edgesIO.idle =>
    /\ ~lastCall.raised
    /\ dom.lineAttr[edgesIO.k] = UNSET
    /\ lastCall.op = "frame" =>
         /\ animationFrameId \in pendingFrames
         /\ \A j \in (DOMAIN relationshipEdges) \ {edgesIO.k} :
              LET line == dom.lineAttr[relationshipEdges[j]]
                  from == ProjectedOf(RELATIONSHIP_EDGES[j][1])
                  to   == ProjectedOf(RELATIONSHIP_EDGES[j][2])
              IN  /\ line.written
                  /\ line.x1 = from.screenX /\ line.y1 = from.screenY
                  /\ line.x2 = to.screenX /\ line.y2 = to.screenY

\* the first edge names node 7; two frames have run, the first line was never
\* written, the second was
C19_Witness ==
  /\ ~edgesIO.idle
  /\ lastCall.op = "frame"
  /\ nextFrameId > 3
  /\ RELATIONSHIP_EDGES[1] = << 0, NUM_NODES >>
  /\ dom.lineAttr[1] = UNSET
  /\ dom.lineAttr[2].written

\* |v|
Magnitude(v) == IF v < 0 THEN -v ELSE v

\* scale is CAMERA_DISTANCE / (CAMERA_DISTANCE + z) to the precision of the model,
\* and z is passed through
ScaleAndZExact(point, out) ==
  /\ 2 * Magnitude(out.scale * (CAMERA_DISTANCE * LEN + point.z) - CAMERA_DISTANCE * LEN * TRIG)
       <= CAMERA_DISTANCE * LEN + point.z
  /\ out.z = point.z

\* how far the returned screenX and screenY are from CENTER_X + x * scale and
\* CENTER_Y - y * scale, in units of 1 / (LEN * TRIG)
ScreenXOff(point, out) ==
  Magnitude(out.screenX * LEN * TRIG - (CENTER_X * LEN * TRIG + point.x * out.scale))
ScreenYOff(point, out) ==
  Magnitude(out.screenY * LEN * TRIG - (CENTER_Y * LEN * TRIG - point.y * out.scale))

\* the point handed to the projection kernel first
FirstPoint == [x |-> projIO.x, y |-> projIO.y, z |-> projIO.z1]

\* C20 as stated: the result has scale = CAMERA_DISTANCE / (CAMERA_DISTANCE + z),
\* z unchanged, and screenX, screenY exactly CENTER_X + x * scale and
\* CENTER_Y - y * scale (to 0.01, the precision of the model).
C20_ProjectionUnrounded ==
  projIO.applied =>
    /\ ScaleAndZExact(FirstPoint, projIO.out1)
    /\ ScreenXOff(FirstPoint, projIO.out1) <= TRIG
    /\ ScreenYOff(FirstPoint, projIO.out1) <= TRIG

\* C20 as amended: the result has scale = CAMERA_DISTANCE / (CAMERA_DISTANCE + z),
\* z unchanged, and screenX, screenY are CENTER_X + x * scale and
\* CENTER_Y - y * scale rounded to the nearest integer: at most half a unit
\* off (plus the precision of the model).
C20_ProjectionRounded ==
  projIO.applied =>
    /\ ScaleAndZExact(FirstPoint, projIO.out1)
    /\ 2 * ScreenXOff(FirstPoint, projIO.out1) <= LEN * TRIG + TRIG
    /\ 2 * ScreenYOff(FirstPoint, projIO.out1) <= LEN * TRIG + TRIG

\* a point off both axes whose screenX was rounded by more than a tenth of a unit
C20_Witness ==
  /\ projIO.applied
  /\ projIO.x # 0 /\ projIO.y # 0 /\ projIO.z1 # 0
  /\ 10 * ScreenXOff(FirstPoint, projIO.out1) > LEN * TRIG

\* a rotation about the vertical (y) axis alone
SpinAboutY(point, angle) ==
  [x |-> RoundDiv(point.x * Cos(angle) + point.z * Sin(angle), TRIG),
   y |-> point.y,
   z |-> RoundDiv(-point.x * Sin(angle) + point.z * Cos(angle), TRIG)]

\* a rotation about the horizontal (x) axis alone
TiltAboutX(point, angle) ==
  [x |-> point.x,
   y |-> RoundDiv(point.y * Cos(angle) - point.z * Sin(angle), TRIG),
   z |-> RoundDiv(point.y * Sin(angle) + point.z * Cos(angle), TRIG)]

\* the same two rotations composed the other way round
TiltThenSpin(point, spinAngle, tiltAngle) ==
  SpinAboutY(TiltAboutX(point, tiltAngle), spinAngle)

\* the line of points (x, -x, -x)
OnCommonAxis(point) == point.y = -point.x /\ point.z = -point.x

\* C21 (as stated): rotatePoint is the spin followed by the tilt on the spun
\* depth, and for non-zero angles the tilt followed by the spin gives a
\* different point.
C21_OrdersDifferForNonZeroAngles ==
  rotIO.applied =>
    /\ rotIO.out = TiltAboutX(SpinAboutY(rotIO.point, rotIO.spinAngle), rotIO.tiltAngle)
    /\ (rotIO.spinAngle # 0 /\ rotIO.tiltAngle # 0) =>
         TiltThenSpin(rotIO.point, rotIO.spinAngle, rotIO.tiltAngle) # rotIO.out

\* C21 (amended): rotatePoint is the spin about the vertical axis followed by
\* the tilt about the horizontal axis, the tilt using the depth the spin has
\* produced; two quarter turns take (x, y, z) to (z, x, y), which the tilt
\* followed by the spin does not unless the point is on the line (x, -x, -x);
\* for angles that are non-zero and not both half turns the two orders differ
\* on some point, while two half turns give the same point in either order.
C21_SpinThenTilt ==
  rotIO.applied =>
    LET p == rotIO.point
        spin == rotIO.spinAngle
        tilt == rotIO.tiltAngle
        quarter == PI \div 2
    IN  /\ rotIO.out = TiltAboutX(SpinAboutY(p, spin), tilt)
        /\ (spin = quarter /\ tilt = quarter) =>
             /\ rotIO.out = [x |-> p.z, y |-> p.x, z |-> p.y]
             /\ OnCommonAxis(p) <=> TiltThenSpin(p, spin, tilt) = rotIO.out
        /\ (spin # 0 /\ tilt # 0 /\ ~(spin = PI /\ tilt = PI)) =>
             \E q \in RotPoints : TiltThenSpin(q, spin, tilt) # rotatePoint(q, spin, tilt)
        /\ (spin = PI /\ tilt = PI) =>
             /\ rotIO.out = [x |-> -p.x, y |-> -p.y, z |-> p.z]
             /\ TiltThenSpin(p, spin, tilt) = rotIO.out

\* two quarter turns of the point (-220, 0, 0): it ends at (0, -220, 0), and
\* at (0, 0, 220) had the tilt come first
C21_Witness ==
  /\ rotIO.applied
  /\ rotIO.spinAngle = PI \div 2 /\ rotIO.tiltAngle = PI \div 2
  /\ rotIO.point = [x |-> -(SPHERE_RADIUS * LEN), y |-> 0, z |-> 0]
  /\ rotIO.out = [x |-> 0, y |-> -(SPHERE_RADIUS * LEN), z |-> 0]
  /\ TiltThenSpin(rotIO.point, rotIO.spinAngle, rotIO.tiltAngle)
       = [x |-> 0, y |-> 0, z |-> SPHERE_RADIUS * LEN]

\* node index n has a node element, a label element
HasNodeElement(n) == At(nodeElements, n) # NULL

HasLabelElement(n) == At(labelElements, n) # NULL

\* the opacity the latest frame wrote to the node element bound to node index n
NodeOpacityOf(n) == dom.nodeAttr[nodeElements[n + 1]].opacity

\* the opacity the latest frame wrote to the label element bound to node index n
LabelOpacityOf(n) == dom.labelAttr[labelElements[n + 1]].opacity

\* C22: within one frame a node drawn later (nearer to the camera) has a scale,
\* a node opacity and a label opacity that are at least those of a node drawn
\* earlier, and every node opacity the frame wrote is at least 0.4.
C22_NearerNeverLessOpaque ==
  lastCall.op = "frame" =>
    /\ \A i, j \in DOMAIN projectedNodes :
         i < j =>
           LET far  == projectedNodes[i]
               near == projectedNodes[j]
           IN  /\ near.scale >= far.scale
               /\ (HasNodeElement(far.index) /\ HasNodeElement(near.index))
                    => NodeOpacityOf(near.index) >= NodeOpacityOf(far.index)
               /\ (HasLabelElement(far.index) /\ HasLabelElement(near.index))
                    => LabelOpacityOf(near.index) >= LabelOpacityOf(far.index)
    /\ \A k \in DOMAIN nodeElements :
         k <= NUM_NODES => dom.nodeAttr[nodeElements[k]].opacity >= 40

\* a frame on the page as designed: the nearest node is more opaque than the
\* farthest, whose opacity is still above the floor
C22_Witness ==
  /\ lastCall.op = "frame"
  /\ page.nodes = NUM_NODES /\ page.labels = NUM_NODES
  /\ NodeOpacityOf(projectedNodes[NUM_NODES].index) > NodeOpacityOf(projectedNodes[1].index)
  /\ LabelOpacityOf(projectedNodes[NUM_NODES].index) > LabelOpacityOf(projectedNodes[1].index)
  /\ NodeOpacityOf(projectedNodes[1].index) >= 40

\* C23: whatever calls and frames have happened, at most one frame callback is
\* pending, and animationFrameId is non-null exactly when one is pending and
\* is then that callback's id.
C23_AtMostOnePending ==
  /\ Cardinality(pendingFrames) <= 1
  /\ animationFrameId # NULL <=> pendingFrames # {}
  /\ animationFrameId # NULL => pendingFrames = { animationFrameId }

\* C24: after every start that did not abort, nodeElements[i] is the element
\* of node index i, also when earlier frames have re-ordered the elements
\* inside the nodes group.
C24_RebindKeepsIndices ==
  (lastCall.op = "init" /\ ~InitAborts(lastCall.container, page)) =>
    \A k \in DOMAIN nodeElements : nodeElements[k] = k

\* C25: whatever number of node, label and line elements was bound at start, a
\* frame raises nothing and schedules the next frame.
C25_FrameNeverRaises ==
  lastCall.op = "frame" =>
    /\ ~lastCall.raised
    /\ animationFrameId \in pendingFrames

\* the show and hide calls that took effect: a show for no service returns at once
EffectiveCalls == SelectSeq(panelCalls, LAMBDA c : c.op = "hide" \/ c.service # NULL)

\* C26: once every timer has fired, the panel reflects the last call: shown
\* (display block, opacity 1) after a show, hidden (display none, opacity 0)
\* after a hide.
C26_PanelReflectsLastCall ==
  (timers = << >> /\ EffectiveCalls # << >>) =>
    LET last == EffectiveCalls[Len(EffectiveCalls)]
    IN  IF last.op = "show"
        THEN detailPanel.display = "block" /\ detailPanel.opacity = 1
        ELSE detailPanel.display = "none" /\ detailPanel.opacity = 0

\* the side of the breakpoint a width is on
IsDesktop(width) == width > DESKTOP_BREAKPOINT

\* C27: handleResize reloads the page only when the width has crossed the
\* breakpoint since initialization, whichever containers the page holds.
C27_ReloadOnlyWhenCrossing ==
  (resizeLog.handled /\ resizeLog.reloaded) =>
    IsDesktop(resizeLog.width) # IsDesktop(resizeLog.before)

\* the notifications the latest submit has shown
ShownBySubmit == SubSeq(notifications, submitLog.shown + 1, Len(notifications))

\* the rules as the form's fields must meet them, on the values as typed
NameLongEnough(values) == Len(Trim(values.name)) >= 2

EmailWellFormed(values) == EMAIL_REGEX(Trim(values.email))

MessageLongEnough(values) == Len(Trim(values.message)) >= 10

\* C28: a submit shows exactly one notification. If a field fails its rule it
\* is the error of the first failing field in the order name, email, message,
\* and the form keeps its values; if all three pass it is the success message,
\* and the form is reset.
C28_FirstFailingFieldOnly ==
  submitLog.submits > 0 =>
    LET typed == submitLog.before
        first == IF ~NameLongEnough(typed) THEN "Name must be at least 2 characters"
                 ELSE IF ~EmailWellFormed(typed) THEN "Please enter a valid email address"
                 ELSE IF ~MessageLongEnough(typed) THEN "Message must be at least 10 characters"
                 ELSE "none"
    IN  /\ Len(ShownBySubmit) = 1
        /\ IF first # "none"
           THEN /\ ShownBySubmit[1].type = "error"
                /\ ShownBySubmit[1].message = first
                /\ form = typed
           ELSE /\ ShownBySubmit[1].type = "success"
                /\ form = EmptyForm

\* a form whose e-mail address and message both fail: only the address is reported
C28_Witness ==
  /\ submitLog.submits = 1
  /\ NameLongEnough(submitLog.before)
  /\ ~EmailWellFormed(submitLog.before)
  /\ ~MessageLongEnough(submitLog.before)
  /\ Len(notifications) = 1
  /\ notifications[1].message = "Please enter a valid email address"
  /\ form = submitLog.before

\* notification n was created, was removed from the document
Created(n) == n \in DOMAIN notifications

Removed(n) == Created(n) /\ ~notifications[n].inDocument

\* C29: every notification showNotification has created is eventually removed
\* from the document, clicked or not, and whatever the order of the click, the
\* auto-hide timer and the removal timers, a notification that was removed is
\* never in the document again; a removal of an element already removed
\* changes nothing in the document.
C29_EventuallyRemoved ==
  /\ \A n \in 1..MaxNotifications : Created(n) ~> Removed(n)
  /\ [][ \A n \in DOMAIN notifications : Removed(n) => Removed(n)' ]_vars

\* a notification closed by a click is gone while its auto-hide timer is
\* still pending
C29_Witness ==
  /\ Removed(1)
  /\ notifications[1].clicks > 0
  /\ \E k \in DOMAIN timers : timers[k].op = "hideNotification" /\ timers[k].arg = 1

\* C30: after k activations (clicks, Enter or Space presses) of the logo,
\* currentIndex is k modulo the number of distributions, within
\* [0, distributionNames.length), and the logo holds exactly the 15 curves of
\* that distribution, numbered 0 to 14: none of an earlier distribution is left.
C30_LogoShowsCurrentDistribution ==
  logo.listening =>
    /\ currentIndex = logoLog.activations % 38
    /\ currentIndex >= 0 /\ currentIndex < DISTRIBUTION_COUNT
    /\ Len(logo.curves) = 15
    /\ \A c \in DOMAIN logo.curves :
         logo.curves[c] = [distribution |-> currentIndex, curveIndex |-> c - 1]

\* the logo has been activated once more than there are distributions: it
\* shows the second distribution again
C30_Witness ==
  /\ logo.listening
  /\ logoLog.activations = DISTRIBUTION_COUNT + 1
  /\ currentIndex = 1
  /\ logoLog.last = " "
  /\ Len(logo.curves) = TOTAL_CURVES
====
